---- MODULE Spec2Model ----
(***************************************************************************)
(* Model of two utilities of griffe:                                       *)
(*   - the logger registry of _griffe/logger.py (class _Logger, get_logger *)
(*     and patch_loggers);                                                 *)
(*   - get_call_keyword_arguments of griffe/agents/nodes/_parameters.py.   *)
(*                                                                         *)
(* Python dictionaries keep insertion order; both the registry            *)
(* (_Logger._instances) and the mapping built by the extractor are         *)
(* modelled as sequences of [key, value] records with unique keys.         *)
(***************************************************************************)
EXTENDS Naturals, Sequences, FiniteSets, TLC

\* ------------------------------------------------------------------ bounds
\* Number of distinct logger names the callers use.
NumNames == 3
\* Largest number of keyword entries of a call node.
MaxKeywords == 3

\* ------------------------------------------------------------ input domains
None == "None"

NameOf == <<"a", "b", "c", "d", "e">>
Names == {NameOf[i] : i \in 1..NumNames}

\* logging.getLogger, the initial value of _Logger._default_logger.
getLogger == "logging.getLogger"
\* Factories a host passes to patch_loggers: f and g never raise, p raises
\* for the name "b" and returns a backend for every other name.
UserFactories == {"f", "g", "p"}
TotalFactories == {"f", "g"}
Raises(func, name) == func = "p" /\ name = "b"

\* The object a factory returns for a name.
Backend(func, name) == [by |-> func, name |-> name]
\* The exception a factory raises for a name.
Exc(func, name) == [raisedBy |-> func, name |-> name]

\* Attributes looked up on a handle: two of the backend's API, two that the
\* handle has itself (the instance attribute and a class method).
BackendAttrs == {"info", "warning"}
OwnAttrs == {"_logger", "_default_logger", "_instances", "get", "_patch_loggers"}
Attrs == BackendAttrs \cup {"_logger", "get"}

\* ------------------------------------------------------------ ordered dict
Keys(d) == {d[i].key : i \in 1..Len(d)}
Contains(d, k) == \E i \in 1..Len(d) : d[i].key = k
GetItem(d, k) == d[CHOOSE i \in 1..Len(d) : d[i].key = k].value
\* (mutant: an existing key keeps its first value)
SetItemKeepFirst(d, k, v) ==
    IF Contains(d, k) THEN d ELSE Append(d, [key |-> k, value |-> v])
\* d[k] = v: a new key is appended, an existing key keeps its position.
SetItem(d, k, v) ==
    IF Contains(d, k)
    THEN [i \in 1..Len(d) |-> IF d[i].key = k THEN [key |-> k, value |-> v] ELSE d[i]]
    ELSE Append(d, [key |-> k, value |-> v])

VARIABLES
    _instances,       \* _Logger._instances: ordered dict name -> handle
    _logger,          \* handle -> its _logger attribute, for every handle built
    _default_logger,  \* _Logger._default_logger
    last,             \* what the caller of the last operation observed
    returned,         \* name -> handles that get(name) has returned so far
    failed,           \* names for which a get has raised so far
    threads,          \* interleaved use: each calling thread's operation,
                      \* position in it and local variables
    installed,        \* history of patch: the argument of the last call that
                      \* returned (now) and of the one before it (prev), the
                      \* handles get had returned when it was called (pre), and
                      \* whether a patch call has raised since (failedSince)
    node,             \* the call node handed to get_call_keyword_arguments
    parent,           \* the enclosing scope handed to it
    pc,               \* "call" before get_call_keyword_arguments runs, "done" after
    result,           \* the mapping it returned
    resolverCalls     \* the calls of safe_get_expression it made, in order

loggerVars == <<_instances, _logger, _default_logger, last, returned, installed, failed>>
extractVars == <<node, parent, pc, result, resolverCalls>>
concVars == <<threads>>
vars == <<_instances, _logger, _default_logger, last, returned, installed, failed,
          threads, node, parent, pc, result, resolverCalls>>

\* ----------------------------------------------------------- logger: helpers
\* A call get_logger_func(name) / _default_logger(name).
CallFactory(func, name) ==
    IF Raises(func, name)
    THEN [raised |-> TRUE, exc |-> Exc(func, name), value |-> None]
    ELSE [raised |-> FALSE, exc |-> None, value |-> Backend(func, name)]

Invocation(func, name) == [func |-> func, name |-> name, raised |-> Raises(func, name)]

\* cls(name) allocates an object that is none of the handles alive.
\* (mutant: a singleton, every name gets the first handle that was built)
NewInstanceShared ==
    IF Len(_instances) = 0 THEN Len(_instances) + 1 ELSE _instances[1].value
NewInstance == CHOOSE h \in 1..(Cardinality(DOMAIN _logger) + 1) : h \notin DOMAIN _logger

\* _Logger.__init__: self._logger = self.__class__._default_logger(name)
\* (mutant: an exception of the factory is caught, the handle gets no backend)
InitSwallows(self, name) ==
    LET r == CallFactory(_default_logger, name) IN
    [raised |-> FALSE, exc |-> None,
     invoked |-> <<Invocation(_default_logger, name)>>,
     loggers |-> (self :> r.value) @@ _logger]
\* (mutant: the patched factory is ignored)
InitUsesGetLogger(self, name) ==
    LET r == CallFactory(getLogger, name) IN
    [raised |-> r.raised, exc |-> r.exc,
     invoked |-> <<Invocation(getLogger, name)>>,
     loggers |-> IF r.raised THEN _logger ELSE (self :> r.value) @@ _logger]
__init__(self, name) ==
    LET r == CallFactory(_default_logger, name) IN
    [raised |-> r.raised, exc |-> r.exc,
     invoked |-> <<Invocation(_default_logger, name)>>,
     loggers |-> IF r.raised THEN _logger ELSE (self :> r.value) @@ _logger]

\* getattr(backend, name): the backend's bound method.
BackendGetattr(backend, name) == [self |-> backend, attr |-> name]

\* _Logger.__getattr__: return getattr(self._logger, name)
\* (mutant: every handle forwards to the backend of the first handle)
GetattrShared(self, name) ==
    LET b == _logger[_instances[1].value] IN
    [receivers |-> {b}, ret |-> BackendGetattr(b, name), invoked |-> <<>>]
__getattr__(self, name) ==
    [receivers |-> {_logger[self]}, ret |-> BackendGetattr(_logger[self], name),
     invoked |-> <<>>]

\* Attribute access on a handle: what the instance or its class defines is
\* found by the normal lookup, anything else goes through __getattr__.
Lookup(self, name) ==
    IF name = "_logger" THEN [receivers |-> {}, ret |-> _logger[self], invoked |-> <<>>]
    ELSE IF name \in OwnAttrs
         THEN [receivers |-> {}, ret |-> [own |-> name], invoked |-> <<>>]
    ELSE __getattr__(self, name)

\* if name not in cls._instances
\* (mutant: no membership test, every get builds a handle)
AlwaysMissing(name) == TRUE
NotRegistered(name) == ~Contains(_instances, name)

\* ------------------------------------------------------- logger: operations
NoOp == [op |-> "none", arg |-> None, outcome |-> "returned", ret |-> None,
         exc |-> None, invoked |-> <<>>, fresh |-> FALSE, receivers |-> {},
         before |-> <<>>, loggersBefore |-> <<>>, defaultBefore |-> None,
         again |-> FALSE]

\* Whether get has been called for the name before (it returned or raised).
Requested(name) == returned[name] # {} \/ name \in failed

\* _Logger.get(name), called through get_logger(name).
get(name) ==
    IF NotRegistered(name)
    THEN LET self == NewInstance
             r == __init__(self, name)
         IN IF r.raised
            THEN /\ last' = [NoOp EXCEPT !.op = "get", !.arg = name,
                                  !.outcome = "raised", !.exc = r.exc,
                                  !.invoked = r.invoked, !.fresh = TRUE,
                                  !.before = _instances, !.loggersBefore = _logger,
                     !.defaultBefore = _default_logger,
                                  !.again = Requested(name)]
                 /\ failed' = failed \cup {name}
                 /\ UNCHANGED <<_instances, _logger, _default_logger, returned, installed>>
            ELSE /\ _instances' = SetItem(_instances, name, self)
                 /\ _logger' = r.loggers
                 /\ last' = [NoOp EXCEPT !.op = "get", !.arg = name,
                                  !.ret = GetItem(_instances', name),
                                  !.invoked = r.invoked, !.fresh = TRUE,
                                  !.before = _instances, !.loggersBefore = _logger,
                     !.defaultBefore = _default_logger,
                                  !.again = Requested(name)]
                 /\ returned' = [returned EXCEPT ![name] = @ \cup {GetItem(_instances', name)}]
                 /\ UNCHANGED <<_default_logger, installed, failed>>
    ELSE /\ last' = [NoOp EXCEPT !.op = "get", !.arg = name,
                          !.ret = GetItem(_instances, name),
                          !.before = _instances, !.loggersBefore = _logger,
                     !.defaultBefore = _default_logger, !.again = Requested(name)]
         /\ returned' = [returned EXCEPT ![name] = @ \cup {GetItem(_instances, name)}]
         /\ UNCHANGED <<_instances, _logger, _default_logger, installed, failed>>

\* for name, instance in cls._instances.items(): instance._logger = get_logger_func(name)
RECURSIVE PatchLoop(_, _, _, _, _)
PatchLoop(items, i, get_logger_func, loggers, invoked) ==
    IF i > Len(items)
    THEN [raised |-> FALSE, exc |-> None, loggers |-> loggers, invoked |-> invoked]
    ELSE LET name == items[i].key
             instance == items[i].value
             r == CallFactory(get_logger_func, name)
             inv == Append(invoked, Invocation(get_logger_func, name))
         IN IF r.raised
            THEN [raised |-> TRUE, exc |-> r.exc, loggers |-> loggers, invoked |-> inv]
            ELSE PatchLoop(items, i + 1, get_logger_func,
                           [loggers EXCEPT ![instance] = r.value], inv)

\* Mutant: the factory is only stored, no existing handle is rebound.
PatchCurrentLazy(get_logger_func) ==
    [raised |-> FALSE, exc |-> None, loggers |-> _logger, invoked |-> <<>>]
\* (mutant: all or nothing, a failed patch puts the old backends back)
PatchCurrentAtomic(get_logger_func) ==
    LET r == PatchLoop(_instances, 1, get_logger_func, _logger, <<>>) IN
    IF r.raised THEN [r EXCEPT !.loggers = _logger] ELSE r
PatchCurrent(get_logger_func) ==
    PatchLoop(_instances, 1, get_logger_func, _logger, <<>>)

\* cls._default_logger = get_logger_func
\* (mutant: the class attribute is left as it was)
KeepDefault(get_logger_func) == _default_logger
NewDefault(get_logger_func) == get_logger_func

\* _Logger._patch_loggers(get_logger_func), called through patch_loggers.
_patch_loggers(get_logger_func) ==
    LET r == PatchCurrent(get_logger_func) IN
    /\ _logger' = r.loggers
    /\ IF r.raised
       THEN /\ last' = [NoOp EXCEPT !.op = "patch", !.arg = get_logger_func,
                             !.outcome = "raised", !.exc = r.exc,
                             !.invoked = r.invoked, !.before = _instances, !.loggersBefore = _logger,
                     !.defaultBefore = _default_logger]
            /\ installed' = [installed EXCEPT !.failedSince = TRUE]
            /\ UNCHANGED _default_logger
       ELSE /\ _default_logger' = NewDefault(get_logger_func)
            /\ last' = [NoOp EXCEPT !.op = "patch", !.arg = get_logger_func,
                             !.invoked = r.invoked, !.before = _instances, !.loggersBefore = _logger,
                     !.defaultBefore = _default_logger]
            /\ installed' = [now |-> get_logger_func, prev |-> installed.now,
                              pre |-> returned, failedSince |-> FALSE]
    /\ UNCHANGED <<_instances, returned, failed>>

\* An attribute access h.<name> on a handle a caller holds.
getattr(self, name) ==
    LET r == Lookup(self, name) IN
    /\ last' = [NoOp EXCEPT !.op = "getattr", !.arg = <<self, name>>,
                     !.ret = r.ret, !.receivers = r.receivers,
                     !.invoked = r.invoked, !.before = _instances, !.loggersBefore = _logger,
                     !.defaultBefore = _default_logger]
    /\ UNCHANGED <<_instances, _logger, _default_logger, returned, installed, failed>>

\* ---------------------------------------------------------------- extractor
\* Keyword entries of an ast.Call: arg is None for a double-star entry and an
\* identifier otherwise; value is the entry's value node.
KeywordNames == {"x", "y"}
ValueNodes == {"v1", "v2", "v3"}
Scopes == {"Module", "Class"}
Keyword == [arg : KeywordNames \cup {None}, value : ValueNodes]
KeywordLists == UNION {[1..n -> Keyword] : n \in 0..MaxKeywords}

\* safe_get_expression(value, parent): the external resolver, a total function
\* of the value node and the scope.
safe_get_expression(value, scope) == [expr |-> value, scope |-> scope]

\* `if kw.arg`: None and the empty string are false.
\* (mutant: no filter)
TruthyAlways(arg) == TRUE
Truthy(arg) == arg # None /\ arg # ""

\* {kw.arg: safe_get_expression(kw.value, parent) for kw in node.keywords if kw.arg}
RECURSIVE Comprehension(_, _, _, _, _)
Comprehension(keywords, scope, i, d, calls) ==
    IF i > Len(keywords)
    THEN [dict |-> d, calls |-> calls]
    ELSE LET kw == keywords[i] IN
         IF Truthy(kw.arg)
         THEN Comprehension(keywords, scope, i + 1,
                            SetItem(d, kw.arg, safe_get_expression(kw.value, scope)),
                            Append(calls, <<kw.value, scope>>))
         ELSE Comprehension(keywords, scope, i + 1, d, calls)

Reverse(s) == [i \in 1..Len(s) |-> s[Len(s) + 1 - i]]
\* (mutant: the keyword list is walked backwards)
ExtractReversed(call, scope) == Comprehension(Reverse(call.keywords), scope, 1, <<>>, <<>>)
get_call_keyword_arguments(call, scope) == Comprehension(call.keywords, scope, 1, <<>>, <<>>)

Extract ==
    /\ pc = "call"
    /\ pc' = "done"
    /\ LET r == get_call_keyword_arguments(node, parent) IN
        /\ result' = r.dict
        /\ resolverCalls' = r.calls
    /\ UNCHANGED <<node, parent>>
    /\ UNCHANGED loggerVars
    /\ UNCHANGED concVars

\* ------------------------------------------------------------ specification
InitLogger ==
    /\ _instances = <<>>
    /\ _logger = <<>>
    /\ _default_logger = getLogger
    /\ last = NoOp
    /\ returned = [n \in Names |-> {}]
    /\ installed = [now |-> None, prev |-> None,
                    pre |-> [n \in Names |-> {}], failedSince |-> FALSE]
    /\ failed = {}

InitNoCall ==
    /\ node = [keywords |-> <<>>]
    /\ parent = "Module"
    /\ pc = "call"
    /\ result = <<>>
    /\ resolverCalls = <<>>

InitCall ==
    /\ node \in [keywords : KeywordLists]
    /\ parent \in Scopes
    /\ pc = "call"
    /\ result = <<>>
    /\ resolverCalls = <<>>

\* The callers of the interleaved specification.
Threads == {"t1", "t2"}
Idle == [pc |-> "idle"]
InitNoThreads == threads = [t \in Threads |-> Idle]

Init == InitLogger /\ InitNoCall /\ InitNoThreads

Get == \E name \in Names : get(name) /\ UNCHANGED extractVars /\ UNCHANGED concVars
Patch == \E func \in UserFactories \cup {getLogger} :
            _patch_loggers(func) /\ UNCHANGED extractVars /\ UNCHANGED concVars
Getattr == \E self \in UNION {returned[n] : n \in Names} : \E name \in Attrs :
            getattr(self, name) /\ UNCHANGED extractVars /\ UNCHANGED concVars

Next == Get \/ Patch \/ Getattr

Spec == Init /\ [][Next]_vars

\* The registry used only with factories that never raise.
PatchTotal == \E func \in TotalFactories \cup {getLogger} :
            _patch_loggers(func) /\ UNCHANGED extractVars /\ UNCHANGED concVars
NextTotal == Get \/ PatchTotal \/ Getattr
SpecTotal == Init /\ [][NextTotal]_vars

\* get_call_keyword_arguments applied once to any bounded call node.
InitExtract == InitLogger /\ InitCall /\ InitNoThreads
NextExtract == Extract
SpecExtract == InitExtract /\ [][NextExtract]_vars

\* ------------------------------------------- interleaved use, no locking
\* Two threads call get_logger / patch_loggers at the same time; a step is one
\* read or write of the shared state (_instances, _default_logger, a
\* registered handle's _logger). The registry starts with the first k names
\* registered under logging.getLogger, as k sequential get calls leave it.
Unset == [by |-> None, name |-> None]
GetStart(n) == [pc |-> "g_check", op |-> "get", name |-> n, func |-> None,
                self |-> 0, fac |-> None, it |-> 0, used |-> 0,
                outcome |-> None, ret |-> 0, old |-> None]
PatchStart(f) == [pc |-> "p_iter", op |-> "patch", name |-> None, func |-> f,
                  self |-> 0, fac |-> None, it |-> 0, used |-> 0,
                  outcome |-> None, ret |-> 0, old |-> None]
StartOps == {GetStart(n) : n \in Names} \cup {PatchStart(f) : f \in TotalFactories}

InitConc ==
    /\ \E k \in 0..NumNames :
          /\ _instances = [i \in 1..k |-> [key |-> NameOf[i], value |-> i]]
          /\ _logger = [i \in 1..k |-> Backend(getLogger, NameOf[i])]
          /\ returned = [n \in Names |->
                            {i \in 1..k : NameOf[i] = n}]
    /\ _default_logger = getLogger
    /\ last = NoOp
    /\ installed = [now |-> None, prev |-> None,
                    pre |-> [n \in Names |-> {}], failedSince |-> FALSE]
    /\ failed = {}
    /\ threads \in [Threads -> StartOps]
    /\ InitNoCall

seqOnlyVars == <<last, installed, failed>>

\* get, line 80: if name not in cls._instances
GetCheck == \E t \in Threads :
    /\ threads[t].pc = "g_check"
    /\ threads' = [threads EXCEPT ![t].pc =
                      IF NotRegistered(threads[t].name) THEN "g_new" ELSE "g_ret"]
    /\ UNCHANGED <<_instances, _logger, _default_logger, returned>>
    /\ UNCHANGED seqOnlyVars /\ UNCHANGED extractVars

\* get, line 81, cls(name): the object is allocated and __init__ (line 64)
\* reads the class attribute _default_logger.
GetNew == \E t \in Threads :
    /\ threads[t].pc = "g_new"
    /\ LET self == NewInstance IN
       /\ _logger' = (self :> Unset) @@ _logger
       /\ threads' = [threads EXCEPT ![t].pc = "g_init", ![t].self = self,
                                     ![t].fac = _default_logger]
    /\ UNCHANGED <<_instances, _default_logger, returned>>
    /\ UNCHANGED seqOnlyVars /\ UNCHANGED extractVars

\* __init__, line 64: the factory that was read is called and its result is
\* stored in self._logger.
GetInit == \E t \in Threads :
    /\ threads[t].pc = "g_init"
    /\ _logger' = [_logger EXCEPT ![threads[t].self] =
                      CallFactory(threads[t].fac, threads[t].name).value]
    /\ threads' = [threads EXCEPT ![t].pc = "g_store"]
    /\ UNCHANGED <<_instances, _default_logger, returned>>
    /\ UNCHANGED seqOnlyVars /\ UNCHANGED extractVars

\* get, line 81: cls._instances[name] = <the new handle>
GetStore == \E t \in Threads :
    /\ threads[t].pc = "g_store"
    /\ _instances' = SetItem(_instances, threads[t].name, threads[t].self)
    /\ threads' = [threads EXCEPT ![t].pc = "g_ret"]
    /\ UNCHANGED <<_logger, _default_logger, returned>>
    /\ UNCHANGED seqOnlyVars /\ UNCHANGED extractVars

\* get, line 82: return cls._instances[name]
GetReturn == \E t \in Threads :
    /\ threads[t].pc = "g_ret"
    /\ LET h == GetItem(_instances, threads[t].name) IN
       /\ threads' = [threads EXCEPT ![t].pc = "done", ![t].ret = h,
                                     ![t].outcome = "returned"]
       /\ returned' = [returned EXCEPT ![threads[t].name] = @ \cup {h}]
    /\ UNCHANGED <<_instances, _logger, _default_logger>>
    /\ UNCHANGED seqOnlyVars /\ UNCHANGED extractVars

\* _patch_loggers, line 87: the iterator over cls._instances.items() is made;
\* it remembers the size of the dictionary.
PatchIter == \E t \in Threads :
    /\ threads[t].pc = "p_iter"
    /\ threads' = [threads EXCEPT ![t].pc = "p_next", ![t].it = 0,
                                  ![t].used = Len(_instances)]
    /\ UNCHANGED <<_instances, _logger, _default_logger, returned>>
    /\ UNCHANGED seqOnlyVars /\ UNCHANGED extractVars

\* line 87, next item: a dictionary whose size has changed since the iterator
\* was made raises RuntimeError; otherwise the next (name, instance) is
\* fetched, or the loop ends.
PatchNext == \E t \in Threads :
    /\ threads[t].pc = "p_next"
    /\ threads' =
          IF Len(_instances) # threads[t].used
          THEN [threads EXCEPT ![t].pc = "done", ![t].outcome = "raised"]
          ELSE IF threads[t].it < Len(_instances)
          THEN [threads EXCEPT ![t].pc = "p_set", ![t].it = @ + 1,
                               ![t].name = _instances[threads[t].it + 1].key,
                               ![t].self = _instances[threads[t].it + 1].value]
          ELSE [threads EXCEPT ![t].pc = "p_default"]
    /\ UNCHANGED <<_instances, _logger, _default_logger, returned>>
    /\ UNCHANGED seqOnlyVars /\ UNCHANGED extractVars

\* line 88: instance._logger = get_logger_func(name)
PatchSet == \E t \in Threads :
    /\ threads[t].pc = "p_set"
    /\ _logger' = [_logger EXCEPT ![threads[t].self] =
                      CallFactory(threads[t].func, threads[t].name).value]
    /\ threads' = [threads EXCEPT ![t].pc = "p_next"]
    /\ UNCHANGED <<_instances, _default_logger, returned>>
    /\ UNCHANGED seqOnlyVars /\ UNCHANGED extractVars

\* line 90: cls._default_logger = get_logger_func
PatchDefault == \E t \in Threads :
    /\ threads[t].pc = "p_default"
    /\ _default_logger' = NewDefault(threads[t].func)
    /\ threads' = [threads EXCEPT ![t].pc = "done", ![t].outcome = "returned",
                                  ![t].old = _default_logger]
    /\ UNCHANGED <<_instances, _logger, returned>>
    /\ UNCHANGED seqOnlyVars /\ UNCHANGED extractVars

NextConc == GetCheck \/ GetNew \/ GetInit \/ GetStore \/ GetReturn
            \/ PatchIter \/ PatchNext \/ PatchSet \/ PatchDefault
SpecConc == InitConc /\ [][NextConc]_vars

\* =================================================================== claims
Handles == UNION {returned[n] : n \in Names}
\* The factory in force: the argument of the last patch that returned, or
\* logging.getLogger when none has.
Current == IF installed.now = None THEN getLogger ELSE installed.now

\* C1: when the most recent patch call returned normally with f, every handle
\* that get had returned for a name n before that call holds the backend
\* f(n), and an operation then forwarded by such a handle is received by f(n).
C1_PatchRebindsIssuedHandles ==
    (installed.now # None /\ ~installed.failedSince) =>
        \A n \in Names : \A h \in installed.pre[n] :
            /\ _logger[h] = Backend(installed.now, n)
            /\ (last.op = "getattr" /\ last.arg[1] = h /\ last.arg[2] \in BackendAttrs)
                   => last.receivers = {Backend(installed.now, n)}
\* A handle issued before patch(f) forwards an operation after it.
C1_Witness ==
    /\ installed.now = "f" /\ ~installed.failedSince
    /\ installed.prev = "g"
    /\ last.op = "getattr" /\ last.arg[2] = "info"
    /\ \E n \in Names : last.arg[1] \in installed.pre[n]
    /\ Len(_instances) > Cardinality(UNION {installed.pre[n] : n \in Names})

C3_FreshHandleUsesCurrentFactory ==
    (last.op = "get" /\ last.fresh /\ last.outcome = "returned") =>
        /\ _logger[last.ret] = Backend(Current, last.arg)
        /\ installed.now = None => _logger[last.ret] = Backend(getLogger, last.arg)
\* A fresh name is requested after patch(f), other names being registered.
C3_Witness ==
    /\ last.op = "get" /\ last.fresh /\ last.outcome = "returned"
    /\ installed.now = "f"
    /\ Len(last.before) >= 1
    /\ _logger[last.ret] = Backend("f", last.arg)

\* C4: an attribute access on a handle for a name the handle does not define
\* is received by the backend the handle holds, by no other backend, and
\* returns what that backend returns; what the handle defines reaches no backend.
C4_TransparentDelegation ==
    last.op = "getattr" =>
        IF last.arg[2] \in OwnAttrs
        THEN last.receivers = {}
        ELSE /\ last.receivers = {_logger[last.arg[1]]}
             /\ last.ret = BackendGetattr(_logger[last.arg[1]], last.arg[2])
\* A forwarded access on a handle whose backend differs from another handle's
\* factory (a patch stopped half way).
C4_Witness ==
    /\ last.op = "getattr" /\ last.arg[2] \in BackendAttrs
    /\ Len(_instances) >= 2
    /\ \E h \in Handles : _logger[h].by # _logger[last.arg[1]].by
    /\ last.ret.self = _logger[last.arg[1]]

\* C5: handles returned for distinct names are distinct objects.
C5_DistinctNamesDistinctHandles ==
    /\ \A n1, n2 \in Names : n1 # n2 => returned[n1] \cap returned[n2] = {}
    /\ \A i, j \in 1..Len(_instances) :
            i # j => _instances[i].value # _instances[j].value
\* Every name has been requested, and a patch has run.
C5_Witness ==
    /\ \A n \in Names : returned[n] # {}
    /\ installed.now # None
    /\ Cardinality(Handles) = NumNames

\* C7: when a factory call made by get or patch raises, the operation ends
\* by raising that same exception to its caller.
C7_FactoryExceptionPropagates ==
    \A i \in 1..Len(last.invoked) :
        last.invoked[i].raised =>
            /\ last.outcome = "raised"
            /\ last.exc = Exc(last.invoked[i].func, last.invoked[i].name)
\* get raised while building a handle.
C7_Witness ==
    /\ last.op = "get" /\ last.outcome = "raised"
    /\ Len(last.invoked) = 1 /\ last.invoked[1].raised
    /\ last.exc = Exc(_default_logger, last.arg)
\* patch raised after it had rebound a handle.
C7_WitnessPatch ==
    /\ last.op = "patch" /\ last.outcome = "raised"
    /\ Len(last.invoked) >= 2
    /\ last.invoked[Len(last.invoked)].raised

\* C10: with factories that never raise, in every state between operations
\* each registered handle for a name n holds the backend the factory in force
\* makes for n, and none holds a backend of the factory installed before it.
C10_HandlesFollowInstalledFactory ==
    /\ _default_logger = Current
    /\ \A i \in 1..Len(_instances) :
            _logger[_instances[i].value] = Backend(Current, _instances[i].key)
    /\ (installed.prev # None /\ installed.prev # installed.now) =>
            \A i \in 1..Len(_instances) :
                _logger[_instances[i].value].by # installed.prev
\* patch(f), patch(g), with handles made before, between and after.
C10_Witness ==
    /\ installed.prev = "f" /\ installed.now = "g"
    /\ Len(_instances) = NumNames
    /\ Cardinality(UNION {installed.pre[n] : n \in Names}) = 2

\* ------------------------------------------------------- claims: extractor
Named(i) == node.keywords[i].arg # None
\* Index of the first and of the last keyword entry called k.
FirstIndex(k) == CHOOSE i \in 1..Len(node.keywords) :
    /\ node.keywords[i].arg = k
    /\ \A j \in 1..(i - 1) : node.keywords[j].arg # k
LastIndex(k) == CHOOSE i \in 1..Len(node.keywords) :
    /\ node.keywords[i].arg = k
    /\ \A j \in (i + 1)..Len(node.keywords) : node.keywords[j].arg # k

\* C6: the keys of the returned mapping are exactly the names of the keyword
\* entries that have one, each mapped to the resolver's result for the value
\* of an entry of that name in the given scope; a node without keyword
\* entries gives the empty mapping.
C6_KeysAreNamedKeywords ==
    pc = "done" =>
        /\ Keys(result) = {node.keywords[i].arg : i \in {j \in 1..Len(node.keywords) : Named(j)}}
        /\ \A e \in 1..Len(result) :
              \E i \in 1..Len(node.keywords) :
                  /\ node.keywords[i].arg = result[e].key
                  /\ result[e].value = safe_get_expression(node.keywords[i].value, parent)
        /\ Len(node.keywords) = 0 => result = <<>>
\* a=.., **kwargs, b=..: two named entries around a double-star entry.
C6_Witness ==
    /\ pc = "done"
    /\ Len(node.keywords) = 3
    /\ node.keywords[1].arg = "x" /\ node.keywords[2].arg = None
    /\ node.keywords[3].arg = "y"
    /\ Keys(result) = {"x", "y"}

\* C8: a name that occurs several times in the keyword list has exactly one
\* entry in the returned mapping, holding the resolved value of the last
\* keyword entry of that name.
C8_LastDuplicateWins ==
    pc = "done" =>
        \A k \in Keys(result) :
            /\ Cardinality({e \in 1..Len(result) : result[e].key = k}) = 1
            /\ GetItem(result, k) =
                   safe_get_expression(node.keywords[LastIndex(k)].value, parent)
\* x=v1, x=v2: the name is repeated with another value.
C8_Witness ==
    /\ pc = "done"
    /\ \E i, j \in 1..Len(node.keywords) :
          /\ i < j
          /\ node.keywords[i].arg = "x" /\ node.keywords[j].arg = "x"
          /\ node.keywords[i].value # node.keywords[j].value
    /\ Len(result) = 1

\* C9: the entries of the returned mapping are in the order in which their
\* names first occur in the keyword list, and the resolver is called for the
\* named entries in list order.
NamedCalls == LET named == SelectSeq(node.keywords, LAMBDA kw : kw.arg # None)
              IN [i \in 1..Len(named) |-> <<named[i].value, parent>>]
C9_ListOrder ==
    pc = "done" =>
        /\ \A e1, e2 \in 1..Len(result) :
              e1 < e2 => FirstIndex(result[e1].key) < FirstIndex(result[e2].key)
        /\ resolverCalls = NamedCalls
\* x=v1, y=v2, x=v3: x stays first although its value comes from the end.
C9_Witness ==
    /\ pc = "done"
    /\ Len(node.keywords) = 3
    /\ node.keywords[1].arg = "x" /\ node.keywords[2].arg = "y"
    /\ node.keywords[3].arg = "x"
    /\ node.keywords[1].value # node.keywords[3].value
    /\ result[1].key = "x" /\ result[2].key = "y"
    /\ Len(resolverCalls) = 3

\* ------------------------------------------------- claims: eager rebinding
\* C11 (as amended): a patch(f) that returns has called f exactly once for
\* each name registered when it was called, in registration order, and for no
\* other name; a patch(f) in which f raises has called f once for each name
\* up to and including the one f raised for, and for none after it. An
\* attribute access on a handle and a get for a registered name call no factory.
C11_EagerRebinding ==
    /\ last.op = "patch" =>
          LET k == Len(last.invoked) IN
          /\ k <= Len(last.before)
          /\ \A i \in 1..k : last.invoked[i] = Invocation(last.arg, last.before[i].key)
          /\ \A i \in 1..(k - 1) : ~last.invoked[i].raised
          /\ last.outcome = "returned" => k = Len(last.before)
          /\ last.outcome = "raised" => (k >= 1 /\ last.invoked[k].raised)
    /\ last.op = "getattr" => last.invoked = <<>>
    /\ (last.op = "get" /\ ~last.fresh) => last.invoked = <<>>
\* patch(f) returned after calling f for each of the registered names.
C11_Witness ==
    /\ last.op = "patch" /\ last.outcome = "returned" /\ last.arg = "f"
    /\ Len(last.before) = NumNames
    /\ Len(last.invoked) = NumNames
    /\ installed.prev = "g"
\* C11 as stated: every patch(f) calls f exactly once for each name registered
\* at the time of the call.
C11_Original ==
    last.op = "patch" =>
        /\ Len(last.invoked) = Len(last.before)
        /\ \A i \in 1..Len(last.before) : last.invoked[i].name = last.before[i].key

\* ------------------------------------------------ claims: get, frame effect
\* C12 (as amended): get(n) for a registered name n calls no factory, leaves
\* the registry, every handle's delegate and the current factory unchanged
\* and returns the stored handle; get calls the factory, once, exactly when
\* the name is not registered (a first request, or a request after one that raised).
C12_GetRegisteredChangesNothing ==
    last.op = "get" =>
        IF Contains(last.before, last.arg)
        THEN /\ _instances = last.before
             /\ _logger = last.loggersBefore
             /\ _default_logger = last.defaultBefore
             /\ last.invoked = <<>>
             /\ last.outcome = "returned"
             /\ last.ret = GetItem(last.before, last.arg)
        ELSE last.invoked = <<Invocation(last.defaultBefore, last.arg)>>
\* A registered name is requested again while the handles hold backends of
\* different factories and an earlier get has raised.
C12_Witness ==
    /\ last.op = "get" /\ Contains(last.before, last.arg) /\ last.invoked = <<>>
    /\ failed # {}
    /\ Len(_instances) >= 2
    /\ \E h \in DOMAIN _logger : _logger[h].by # _logger[last.ret].by
\* C12 as stated: get(n) for a registered name calls no factory, changes
\* nothing and returns the stored handle, and get calls the factory only on
\* the first request for a name.
C12_Original ==
    last.op = "get" =>
        /\ Contains(last.before, last.arg) =>
               (/\ last.invoked = <<>>
                /\ _instances = last.before
                /\ _logger = last.loggersBefore
                /\ _default_logger = last.defaultBefore
                /\ last.ret = GetItem(last.before, last.arg))
        /\ last.invoked # <<>> => ~last.again

\* ------------------------------------------------- claims: interleaved use
\* Thread tg has completed a get that built a handle, thread tp a patch that
\* returned normally.
GetAndPatchDone(tg, tp) ==
    /\ threads[tg].pc = "done" /\ threads[tg].op = "get"
    /\ threads[tg].self # 0 /\ threads[tg].outcome = "returned"
    /\ threads[tp].pc = "done" /\ threads[tp].op = "patch"
    /\ threads[tp].outcome = "returned"
\* The handle registered for the name of tg's get holds a backend built by
\* the factory that tp's patch replaced.
StaleAfterPatch(tg, tp) ==
    /\ Contains(_instances, threads[tg].name)
    /\ threads[tp].old # threads[tp].func
    /\ _logger[GetItem(_instances, threads[tg].name)] =
           Backend(threads[tp].old, threads[tg].name)

\* C13: when an unsynchronized get(n) for a name not yet registered and a
\* patch(f) have both completed, f is the current factory and n's handle is
\* registered, delegating either to f(n) or to the backend of the factory
\* that patch replaced; the latter happens (see the witness) and only when
\* get read the factory before patch replaced it.
C13_GetRacesPatch ==
    \A tg, tp \in Threads :
        GetAndPatchDone(tg, tp) =>
            /\ _default_logger = threads[tp].func
            /\ Contains(_instances, threads[tg].name)
            /\ GetItem(_instances, threads[tg].name) = threads[tg].self
            /\ _logger[threads[tg].self] \in
                   {Backend(threads[tp].func, threads[tg].name),
                    Backend(threads[tp].old, threads[tg].name)}
            /\ StaleAfterPatch(tg, tp) => threads[tg].fac = threads[tp].old
\* Both calls have completed, patch after visiting the handles registered
\* before, and the new handle still delegates to the replaced factory.
C13_Witness ==
    \E tg, tp \in Threads :
        /\ GetAndPatchDone(tg, tp)
        /\ StaleAfterPatch(tg, tp)
        /\ _default_logger = threads[tp].func
        /\ threads[tp].it >= 1
        /\ \A i \in 1..threads[tp].it :
               _logger[_instances[i].value].by = threads[tp].func

\* Threads t1 and t2 have both completed a get for the same name, and each
\* built a handle for it.
TwoBuildersDone(t1, t2) ==
    /\ t1 # t2
    /\ threads[t1].pc = "done" /\ threads[t1].op = "get" /\ threads[t1].self # 0
    /\ threads[t2].pc = "done" /\ threads[t2].op = "get" /\ threads[t2].self # 0
    /\ threads[t1].name = threads[t2].name
RegistryEntries(n) == {i \in 1..Len(_instances) : _instances[i].key = n}

\* C14: when two unsynchronized get(n) calls for a name not yet registered
\* both pass the membership test, they build two different handles; the
\* registry keeps one entry for n, holding the handle stored last, each call
\* returns one of the two handles, and the calls can return different ones
\* (see the witness), of which one is then not in the registry.
C14_TwoGetsRace ==
    \A t1, t2 \in Threads :
        TwoBuildersDone(t1, t2) =>
            LET n == threads[t1].name
                built == {threads[t1].self, threads[t2].self}
            IN /\ threads[t1].self # threads[t2].self
               /\ Cardinality(RegistryEntries(n)) = 1
               /\ GetItem(_instances, n) \in built
               /\ threads[t1].ret \in built /\ threads[t2].ret \in built
               /\ GetItem(_instances, n) \in {threads[t1].ret, threads[t2].ret}
               /\ returned[n] \subseteq built
\* The two calls returned different handles and only one of them is registered.
C14_Witness ==
    \E t1, t2 \in Threads :
        /\ TwoBuildersDone(t1, t2)
        /\ threads[t1].ret # threads[t2].ret
        /\ Cardinality(returned[threads[t1].name]) = 2
        /\ GetItem(_instances, threads[t1].name) = threads[t2].ret
        /\ \A i \in 1..Len(_instances) : _instances[i].value # threads[t1].ret

\* ------------------------------------------- claims: a factory that raises
\* C15: when f raises during patch(f), patch stops at that name: the current
\* factory and the registry are as before the call, the handles before that
\* name in registration order hold the backends f returned for them, and that
\* handle and the ones after it hold the delegates they had; a handle built
\* for a fresh name afterwards comes from the factory that was current before.
C15_PatchStopsAtFailure ==
    /\ (last.op = "patch" /\ last.outcome = "raised") =>
          LET k == Len(last.invoked) IN
          /\ k >= 1 /\ k <= Len(last.before)
          /\ last.exc = Exc(last.arg, last.before[k].key)
          /\ _default_logger = last.defaultBefore
          /\ _instances = last.before
          /\ \A i \in 1..Len(_instances) :
                _logger[_instances[i].value] =
                    IF i < k THEN Backend(last.arg, _instances[i].key)
                    ELSE last.loggersBefore[_instances[i].value]
    /\ (installed.failedSince /\ last.op = "get" /\ last.outcome = "returned"
           /\ ~Contains(last.before, last.arg)) =>
          /\ _default_logger = Current
          /\ _logger[last.ret] = Backend(Current, last.arg)
\* patch(p) raised at the second of three handles: the first is rebound, the
\* others and the current factory f are untouched.
C15_Witness ==
    /\ last.op = "patch" /\ last.outcome = "raised" /\ last.arg = "p"
    /\ Len(last.invoked) = 2 /\ Len(_instances) = 3
    /\ _default_logger = "f"
    /\ _logger[_instances[1].value].by = "p"
    /\ last.loggersBefore[_instances[1].value].by = "f"
    /\ _logger[_instances[2].value].by = "f"
    /\ _logger[_instances[3].value].by = "f"

\* C16: when the current factory raises during get(n) for a name that is not
\* registered, the registry, the delegates of all handles and the current
\* factory are as before the call and nothing is stored under n; a later
\* get(n) calls the factory that is current at that time.
C16_FailedGetLeavesNoTrace ==
    /\ (last.op = "get" /\ \E i \in 1..Len(last.invoked) : last.invoked[i].raised) =>
          /\ last.outcome = "raised"
          /\ ~Contains(last.before, last.arg)
          /\ _instances = last.before
          /\ ~Contains(_instances, last.arg)
          /\ _logger = last.loggersBefore
          /\ _default_logger = last.defaultBefore
          /\ last.arg \in failed
    /\ \A n \in failed : returned[n] = {} => ~Contains(_instances, n)
    /\ (last.op = "get" /\ last.arg \in failed /\ ~Contains(last.before, last.arg)) =>
          last.invoked = <<Invocation(last.defaultBefore, last.arg)>>
\* get("b") raised, a patch installed f, and a later get("b") built the
\* handle with f.
C16_Witness ==
    /\ last.op = "get" /\ last.arg \in failed /\ last.again
    /\ last.outcome = "returned"
    /\ ~Contains(last.before, last.arg)
    /\ Len(last.invoked) = 1 /\ last.invoked[1].func = "f"
    /\ _logger[last.ret] = Backend("f", last.arg)
\* get raised and left the two registered handles and the factory as they were.
C16_WitnessRaise ==
    /\ last.op = "get" /\ last.outcome = "raised"
    /\ Len(_instances) = 2 /\ _instances = last.before
    /\ _default_logger = "p"

\* ------------------------------------------- claims: extractor, resolver
\* C17: the call of get_call_keyword_arguments leaves the call node and the
\* scope as they were and calls the resolver exactly once for each keyword
\* entry that has a name (a repeated name included), in list order, with that
\* entry's value node and the given scope, and never for an entry without a name.
C17_ResolverOncePerNamedEntry ==
    [][pc' = "done" =>
          /\ node' = node /\ parent' = parent
          /\ Len(resolverCalls') =
                 Cardinality({i \in 1..Len(node.keywords) : Named(i)})
          /\ resolverCalls' = NamedCalls
          /\ \A c \in 1..Len(resolverCalls') :
                /\ resolverCalls'[c][2] = parent
                /\ \E i \in 1..Len(node.keywords) :
                      Named(i) /\ node.keywords[i].value = resolverCalls'[c][1]]_vars
\* x=v1, **v2, x=v3 in a class scope: two resolver calls, one per named entry,
\* for a mapping with the single key x.
C17_Witness ==
    /\ pc = "done"
    /\ Len(node.keywords) = 3
    /\ node.keywords[1] = [arg |-> "x", value |-> "v1"]
    /\ node.keywords[2] = [arg |-> None, value |-> "v2"]
    /\ node.keywords[3] = [arg |-> "x", value |-> "v3"]
    /\ parent = "Class"
    /\ resolverCalls = <<(<<"v1", "Class">>), (<<"v3", "Class">>)>>
    /\ Len(result) = 1

====
